---- MODULE Spec2Model ----
(***************************************************************************)
(* Model of the document consolidation engine of hold-that-thought-lambda: *)
(* createSinglePdfFromFiles (src/utils/gemini_api.js), the function that   *)
(* merges a list of base64-encoded PNG / JPEG / PDF files into one PDF     *)
(* and writes it to the filesystem.                                        *)
(*                                                                         *)
(* Every invocation is a JavaScript async function: it runs synchronously  *)
(* from one await to the next.  pc[c] names the await an invocation c is   *)
(* suspended at; an action is the settling of that await together with the *)
(* synchronous code that follows it, up to the next await, return or       *)
(* throw.  The loop body of a file that needs no await (an invalid entry,  *)
(* an unsupported extension) is an action of its own (LoopIter).           *)
(***************************************************************************)
EXTENDS Naturals, Sequences, FiniteSets, TLC

(***************************************************************************)
(* Bounds of the model.                                                    *)
(***************************************************************************)
\* longest input list an invocation is given
MaxFiles == 2

\* the invocations the model holds state for
Calls == {1, 2}

(***************************************************************************)
(* JavaScript values.  A value carries its typeof; a string file name is a *)
(* sequence of characters, a string payload is a base64 text.              *)
(***************************************************************************)
StrName(s) == [t |-> "string", s |-> s]
UndefName == [t |-> "undefined", s |-> <<>>]
StrData(d) == [t |-> "string", s |-> d]
UndefData == [t |-> "undefined", s |-> ""]
NumData == [t |-> "number", s |-> ""]

\* an element of the files array: null, or an object with two properties
NullEntry == [obj |-> FALSE, fileName |-> UndefName, fileData |-> UndefData]
Entry(n, d) == [obj |-> TRUE, fileName |-> n, fileData |-> d]

\* the files argument: an array, or some value that is not an array
ArrayOf(items) == [isArray |-> TRUE, items |-> items]
NotAnArray == [isArray |-> FALSE, items |-> <<>>]

\* the outputPdfPath argument: a string is the sequence of its segments
\* ("/tmp/x.pdf" is <<"tmp", "x.pdf">>, the empty string is <<>>)
StrPath(segs) == [t |-> "string", s |-> segs]
UndefPath == [t |-> "undefined", s |-> <<>>]

(***************************************************************************)
(* path.extname and String.prototype.toLowerCase, on character sequences.  *)
(***************************************************************************)
ToLowerChar(ch) ==
    CASE ch = "P" -> "p"
      [] ch = "N" -> "n"
      [] ch = "G" -> "g"
      [] ch = "J" -> "j"
      [] ch = "D" -> "d"
      [] ch = "F" -> "f"
      [] OTHER -> ch

toLowerCase(s) == [k \in 1..Len(s) |-> ToLowerChar(s[k])]

Max(S) == CHOOSE m \in S : \A n \in S : n <= m

\* Node's posix path.extname: from the last "." of the last path portion to
\* its end; empty when there is no ".", when the "." is the first character
\* of that portion, or when the portion is ".."
extname(s) ==
    LET nonSep == {k \in 1..Len(s) : s[k] # "/"}
        end == IF nonSep = {} THEN 0 ELSE Max(nonSep)
        seps == {k \in 1..Len(s) : k < end /\ s[k] = "/"}
        startPart == IF seps = {} THEN 1 ELSE Max(seps) + 1
        dots == {k \in startPart..end : s[k] = "."}
        startDot == IF dots = {} THEN 0 ELSE Max(dots)
    IN  IF startDot = 0 THEN <<>>
        ELSE IF startDot = startPart THEN <<>>
        ELSE IF startDot = end /\ startDot = startPart + 1 /\ s[startPart] = "."
             THEN <<>>
        ELSE SubSeq(s, startDot, end)

EXT_PNG == <<".", "p", "n", "g">>
EXT_JPG == <<".", "j", "p", "g">>
EXT_JPEG == <<".", "j", "p", "e", "g">>
EXT_PDF == <<".", "p", "d", "f">>

(***************************************************************************)
(* Buffer.from(base64Data, 'base64') and what pdf-lib makes of the bytes.  *)
(* A buffer is described by what the bytes are: a PNG or a JPEG of some    *)
(* native size, a PDF with some pages, or bytes no decoder accepts.        *)
(***************************************************************************)
Dim(w, h) == [w |-> w, h |-> h]

BufferFrom(base64Data) ==
    CASE base64Data = "PNG_A" -> [fmt |-> "png", w |-> 1, h |-> 2, pages |-> <<>>]
      [] base64Data = "PNG_B" -> [fmt |-> "png", w |-> 3, h |-> 1, pages |-> <<>>]
      [] base64Data = "JPG_A" -> [fmt |-> "jpeg", w |-> 2, h |-> 1, pages |-> <<>>]
      [] base64Data = "JPG_B" -> [fmt |-> "jpeg", w |-> 2, h |-> 3, pages |-> <<>>]
      [] base64Data = "PDF_2" ->
            [fmt |-> "pdf", w |-> 0, h |-> 0, pages |-> <<Dim(3, 4), Dim(4, 3)>>]
      [] base64Data = "PDF_0" -> [fmt |-> "pdf", w |-> 0, h |-> 0, pages |-> <<>>]
      [] base64Data = "" -> [fmt |-> "empty", w |-> 0, h |-> 0, pages |-> <<>>]
      [] OTHER -> [fmt |-> "garbage", w |-> 0, h |-> 0, pages |-> <<>>]

NoBuffer == [fmt |-> "none", w |-> 0, h |-> 0, pages |-> <<>>]

\* a page of the default size of addPage(), whatever the image
ImagePageDefaultSize(src, buf) ==
    [src |-> src, n |-> 1, w |-> 595, h |-> 842, content |-> "image"]

\* a page of the output document: where it came from, its size, its content
ImagePage(src, buf) ==
    [src |-> src, n |-> 1, w |-> buf.w, h |-> buf.h, content |-> "image"]
LiftedPage(src, buf, n) ==
    [src |-> src, n |-> n, w |-> buf.pages[n].w, h |-> buf.pages[n].h,
     content |-> "lifted"]

\* mainPdfDoc.embedPng / embedJpg resolve for bytes of that format only
embedPngOk(buf) == buf.fmt = "png"
embedJpgOk(buf) == buf.fmt = "jpeg"
\* PDFDocument.load resolves for the bytes of a PDF only
loadOk(buf) == buf.fmt = "pdf"

(***************************************************************************)
(* The inputs the model draws from.                                        *)
(***************************************************************************)
NAME_A_PNG == <<"a", ".", "p", "n", "g">>
NAME_B_PNG_UPPER == <<"b", ".", "P", "N", "G">>
NAME_C_JPG == <<"c", ".", "j", "p", "g">>
NAME_D_JPEG == <<"d", ".", "J", "p", "e", "g">>
NAME_E_PDF == <<"e", ".", "p", "d", "f">>
NAME_F_TXT == <<"f", ".", "t", "x", "t">>
NAME_G_NOEXT == <<"g">>
NAME_DOTFILE == <<".", "p", "n", "g">>
NAME_EMPTY == <<>>

Entries ==
    { NullEntry,
      Entry(UndefName, StrData("PNG_A")),
      Entry(StrName(NAME_A_PNG), NumData),
      Entry(StrName(NAME_A_PNG), StrData("PNG_A")),
      Entry(StrName(NAME_B_PNG_UPPER), StrData("PNG_B")),
      Entry(StrName(NAME_C_JPG), StrData("JPG_A")),
      Entry(StrName(NAME_D_JPEG), StrData("JPG_B")),
      Entry(StrName(NAME_E_PDF), StrData("PDF_2")),
      Entry(StrName(NAME_E_PDF), StrData("PDF_0")),
      Entry(StrName(NAME_A_PNG), StrData("GARBAGE")),
      Entry(StrName(NAME_E_PDF), StrData("GARBAGE")),
      Entry(StrName(NAME_A_PNG), StrData("")),
      Entry(StrName(NAME_A_PNG), StrData("PDF_2")),
      Entry(StrName(NAME_C_JPG), StrData("PNG_A")),
      Entry(StrName(NAME_F_TXT), StrData("PNG_A")),
      Entry(StrName(NAME_G_NOEXT), StrData("PDF_2")),
      Entry(StrName(NAME_DOTFILE), StrData("PNG_A")),
      Entry(StrName(NAME_EMPTY), StrData("JPG_A")) }

RECURSIVE SeqsUpTo(_, _)
SeqsUpTo(S, n) ==
    IF n = 0 THEN {<<>>}
    ELSE LET shorter == SeqsUpTo(S, n - 1)
         IN  shorter \cup {Append(q, e) : q \in shorter, e \in S}

FilesArgs == {ArrayOf(q) : q \in SeqsUpTo(Entries, MaxFiles)} \cup {NotAnArray}

\* the path the caller passes, a path in a directory chain, and two values
\* that are no usable path
TMP_PATH == <<"tmp", "final_merged_document.pdf">>
DEEP_PATH == <<"out", "y", "merged.pdf">>
PathArgs == {StrPath(TMP_PATH), StrPath(DEEP_PATH), StrPath(<<>>), UndefPath}

(***************************************************************************)
(* The filesystem: the directories that exist (the root always does) and   *)
(* the content of the file at each path an invocation may write.           *)
(***************************************************************************)
NoFile == [kind |-> "absent", pages |-> <<>>]
Truncated == [kind |-> "truncated", pages |-> <<>>]
\* mainPdfDoc.save(): the bytes of a PDF with the document's pages
Serialize(doc) == [kind |-> "pdf", pages |-> doc]
\* a merged PDF that an earlier run left behind
StalePage == [src |-> "EARLIER", n |-> 1, w |-> 9, h |-> 9, content |-> "image"]
StaleFile == Serialize(<<StalePage>>)

Targets == {TMP_PATH, DEEP_PATH}

\* path.dirname of a path given by its segments
dirname(segs) == SubSeq(segs, 1, Len(segs) - 1)

\* fs.existsSync of a directory
existsSync(dirs, d) == d = <<>> \/ d \in dirs

\* a mkdirSync that makes the directory named and no ancestor of it
mkdirLeafOnly(dirs, d) == dirs \cup {d}

\* fs.mkdirSync(d, { recursive: true }): d and every missing ancestor
mkdirRecursive(dirs, d) == dirs \cup {SubSeq(d, 1, k) : k \in 1..Len(d)}

FsInits ==
    { [dirs |-> {<<"tmp">>},
       files |-> [t \in Targets |-> NoFile]],
      [dirs |-> {<<"tmp">>},
       files |-> [t \in Targets |-> IF t = TMP_PATH THEN StaleFile ELSE NoFile]],
      [dirs |-> {<<"tmp">>, <<"out">>},
       files |-> [t \in Targets |-> NoFile]],
      [dirs |-> {<<"tmp">>, <<"out">>, <<"out", "y">>},
       files |-> [t \in Targets |-> IF t = DEEP_PATH THEN StaleFile ELSE NoFile]],
      [dirs |-> {},
       files |-> [t \in Targets |-> NoFile]] }

(***************************************************************************)
(* Errors.  The ones the function throws itself carry its messages; the    *)
(* others are what pdf-lib and fs reject or throw with.                    *)
(***************************************************************************)
ERR_FILES == "Input 'files' must be a non-empty array."
ERR_PATH == "Invalid 'outputPdfPath' provided."
ERR_NO_PAGES == "No valid pages could be added to the output PDF."
ERR_SAVE == "pdf-lib: save failed"
ERR_MKDIR == "EACCES: mkdir"
ERR_WRITE == "ENOSPC: write"
ERR_DECODE == "pdf-lib: bytes could not be parsed"

Pending == [status |-> "pending", error |-> "", value |-> UndefPath]
Rejected(e) == [status |-> "rejected", error |-> e, value |-> UndefPath]
Resolved(v) == [status |-> "resolved", error |-> "", value |-> v]

(***************************************************************************)
(* State.                                                                  *)
(***************************************************************************)
VARIABLES
    pc,             \* per invocation: the await it is suspended at
    files,          \* per invocation: the files argument
    outputPdfPath,  \* per invocation: the outputPdfPath argument
    mainPdfDoc,     \* per invocation: the pages of the output document
    docCreated,     \* per invocation: PDFDocument.create() has resolved
    i,              \* per invocation: the loop index (from 0)
    fileBuffer,     \* per invocation: the decoded bytes of file i
    result,         \* per invocation: how the returned promise settled
    trace,          \* per invocation: the library, fs and console calls made
    pageGroups,     \* per invocation: the pages each finished iteration added
    fsAtCall,       \* per invocation: the filesystem as it was at the call
    fsDirs,         \* the directories that exist
    fsFiles,        \* the content of the files at Targets
    BUCKET_NAME,    \* process.env.BUCKET_NAME is set
    hpc,            \* per invocation of the handler: the await it is suspended at
    event,          \* per invocation of the handler: the event it was given
    response,       \* per invocation of the handler: the response it returned
    contentParts,   \* per invocation: the parts given to model.generateContent
    pdfBody,        \* per invocation: what readFileSync gave for document.pdf
    s3Document,     \* per invocation: the document.pdf the bucket holds for it
    htrace          \* per invocation: the calls the handler layer made

\* the state of createSinglePdfFromFiles and of the filesystem
pdfVars == <<pc, files, outputPdfPath, mainPdfDoc, docCreated, i, fileBuffer,
             result, trace, pageGroups, fsAtCall, fsDirs, fsFiles>>

\* the state of the handler and of callGoogleGenAIOCRBatch
hvars == <<BUCKET_NAME, hpc, event, response, contentParts, pdfBody, s3Document,
           htrace>>

vars == <<pdfVars, hvars>>

\* a task of no type, no response yet, no file read
NoEvent == [kind |-> "none", title |-> FALSE, content |-> FALSE, files |-> NotAnArray]
NoResponse == [statusCode |-> 0]
NoBody == [kind |-> "unread", pages |-> <<>>]

\* no invocation of the handler has been made
HandlerIdle ==
    /\ hpc = [c \in Calls |-> "idle"]
    /\ event = [c \in Calls |-> NoEvent]
    /\ response = [c \in Calls |-> NoResponse]
    /\ contentParts = [c \in Calls |-> <<>>]
    /\ pdfBody = [c \in Calls |-> NoBody]
    /\ s3Document = [c \in Calls |-> NoBody]
    /\ htrace = [c \in Calls |-> <<>>]

Ev(op, idx) == [op |-> op, idx |-> idx]

Log(c, evs) == trace' = [trace EXCEPT ![c] = @ \o evs]

\* no call of createSinglePdfFromFiles has been made; the filesystem is any
\* of FsInits
PdfIdle ==
    /\ pc = [c \in Calls |-> "idle"]
    /\ files = [c \in Calls |-> NotAnArray]
    /\ outputPdfPath = [c \in Calls |-> UndefPath]
    /\ mainPdfDoc = [c \in Calls |-> <<>>]
    /\ docCreated = [c \in Calls |-> FALSE]
    /\ i = [c \in Calls |-> 0]
    /\ fileBuffer = [c \in Calls |-> NoBuffer]
    /\ result = [c \in Calls |-> Pending]
    /\ trace = [c \in Calls |-> <<>>]
    /\ pageGroups = [c \in Calls |-> <<>>]
    /\ \E f \in FsInits :
          /\ fsDirs = f.dirs
          /\ fsFiles = f.files
          /\ fsAtCall = [c \in Calls |-> f]

Init ==
    /\ PdfIdle
    /\ HandlerIdle
    /\ BUCKET_NAME = TRUE

\* a throw that nothing catches: the promise of the invocation rejects with
\* the error thrown
Throw(c, e) ==
    /\ pc' = [pc EXCEPT ![c] = "rejected"]
    /\ result' = [result EXCEPT ![c] = Rejected(e)]

\* an entry without the check of the files argument
CallNoFilesCheck(c, f, p) ==
    /\ pc[c] = "idle"
    /\ files' = [files EXCEPT ![c] = f]
    /\ outputPdfPath' = [outputPdfPath EXCEPT ![c] = p]
    /\ fsAtCall' = [fsAtCall EXCEPT ![c] = [dirs |-> fsDirs, files |-> fsFiles]]
    /\ IF p.t # "string" \/ p.s = <<>>
       THEN /\ Throw(c, ERR_PATH)
            /\ UNCHANGED trace
       ELSE /\ pc' = [pc EXCEPT ![c] = "create"]
            /\ Log(c, <<Ev("create", 0)>>)
            /\ UNCHANGED result
    /\ UNCHANGED <<mainPdfDoc, docCreated, i, fileBuffer, pageGroups, fsDirs, fsFiles>>

(***************************************************************************)
(* createSinglePdfFromFiles(files, outputPdfPath), to its first await: the *)
(* two argument checks and the call of PDFDocument.create().               *)
(***************************************************************************)
Call(c, f, p) ==
    /\ pc[c] = "idle"
    /\ files' = [files EXCEPT ![c] = f]
    /\ outputPdfPath' = [outputPdfPath EXCEPT ![c] = p]
    /\ fsAtCall' = [fsAtCall EXCEPT ![c] = [dirs |-> fsDirs, files |-> fsFiles]]
    /\ IF ~f.isArray \/ Len(f.items) = 0
       THEN /\ Throw(c, ERR_FILES)
            /\ UNCHANGED trace
       ELSE IF p.t # "string" \/ p.s = <<>>
       THEN /\ Throw(c, ERR_PATH)
            /\ UNCHANGED trace
       ELSE /\ pc' = [pc EXCEPT ![c] = "create"]
            /\ Log(c, <<Ev("create", 0)>>)
            /\ UNCHANGED result
    /\ UNCHANGED <<mainPdfDoc, docCreated, i, fileBuffer, pageGroups, fsDirs, fsFiles>>

\* a document that is created with a first blank page in it
CreateSettledWithPage(c) ==
    /\ pc[c] = "create"
    /\ mainPdfDoc' = [mainPdfDoc EXCEPT ![c] =
            <<[src |-> "", n |-> 1, w |-> 595, h |-> 842, content |-> "blank"]>>]
    /\ docCreated' = [docCreated EXCEPT ![c] = TRUE]
    /\ i' = [i EXCEPT ![c] = 0]
    /\ pc' = [pc EXCEPT ![c] = "loop"]
    /\ UNCHANGED <<files, outputPdfPath, fileBuffer, result, trace, pageGroups,
                   fsAtCall, fsDirs, fsFiles>>
    /\ UNCHANGED hvars

\* PDFDocument.create() resolves: the empty document, and the loop starts
CreateSettled(c) ==
    /\ pc[c] = "create"
    /\ mainPdfDoc' = [mainPdfDoc EXCEPT ![c] = <<>>]
    /\ docCreated' = [docCreated EXCEPT ![c] = TRUE]
    /\ i' = [i EXCEPT ![c] = 0]
    /\ pc' = [pc EXCEPT ![c] = "loop"]
    /\ UNCHANGED <<files, outputPdfPath, fileBuffer, result, trace, pageGroups,
                   fsAtCall, fsDirs, fsFiles>>
    /\ UNCHANGED hvars

(***************************************************************************)
(* The per-file loop.                                                      *)
(***************************************************************************)
CurrentFile(c) == files[c].items[i[c] + 1]

\* the "basic validation of file object structure" of the loop
InvalidFileObject(file) ==
    \/ ~file.obj
    \/ file.fileName.t # "string"
    \/ file.fileData.t # "string"

\* path.extname on each file name of the model, computed once
extnameOf == [s \in {e.fileName.s : e \in Entries} |-> extname(s)]

\* the extension as written, its case kept
ExtensionCaseSensitive(file) == extname(file.fileName.s)

\* path.extname(fileName).toLowerCase()
Extension(file) == toLowerCase(extnameOf[file.fileName.s])

\* the branch the if / else-if chain on the extension takes: the pdf-lib call
\* it awaits, or none
Dispatch(extension) ==
    IF extension = EXT_PNG THEN "embedPng"
    ELSE IF extension = EXT_JPG \/ extension = EXT_JPEG THEN "embedJpg"
    ELSE IF extension = EXT_PDF THEN "load"
    ELSE "unsupported"

\* the end of one iteration that added the pages of group to the document:
\* i++ and back to the loop test
NextFile(c, group) ==
    /\ i' = [i EXCEPT ![c] = @ + 1]
    /\ pc' = [pc EXCEPT ![c] = "loop"]
    /\ fileBuffer' = [fileBuffer EXCEPT ![c] = NoBuffer]
    /\ pageGroups' = [pageGroups EXCEPT ![c] = Append(@, group)]
    /\ UNCHANGED result

\* a validation that throws on the entry instead of skipping it
RejectInvalid(c) ==
    /\ Log(c, <<Ev("console.warn", i[c])>>)
    /\ Throw(c, "TypeError: invalid file object")
    /\ UNCHANGED <<mainPdfDoc, i, fileBuffer, pageGroups>>

\* the entry fails the validation: a warning, and continue
SkipInvalid(c) ==
    /\ Log(c, <<Ev("console.warn", i[c])>>)
    /\ NextFile(c, <<>>)
    /\ UNCHANGED mainPdfDoc

\* the else branch of the chain: a warning, and continue
SkipUnsupported(c) ==
    /\ Log(c, <<Ev("console.warn", i[c])>>)
    /\ NextFile(c, <<>>)
    /\ UNCHANGED mainPdfDoc

\* a catch block that gives up on the rest of the list: the loop is left
CatchAndBreak(c, e) ==
    /\ Log(c, <<Ev(e, i[c]), Ev("console.error", i[c])>>)
    /\ pc' = [pc EXCEPT ![c] = "loop"]
    /\ i' = [i EXCEPT ![c] = Len(files[c].items)]
    /\ pageGroups' = [pageGroups EXCEPT ![c] =
            @ \o [k \in 1..(Len(files[c].items) - i[c]) |-> <<>>]]
    /\ fileBuffer' = [fileBuffer EXCEPT ![c] = NoBuffer]
    /\ UNCHANGED <<mainPdfDoc, result>>

\* a catch block that throws again (the "stop on error" option)
CatchAndRethrow(c, e) ==
    /\ Log(c, <<Ev(e, i[c]), Ev("console.error", i[c])>>)
    /\ Throw(c, e)
    /\ UNCHANGED <<mainPdfDoc, i, fileBuffer, pageGroups>>

\* a catch block that tries the same entry again
CatchAndRetry(c, e) ==
    /\ Log(c, <<Ev(e, i[c]), Ev("console.error", i[c]), Ev("console.warn", i[c])>>)
    /\ pc' = [pc EXCEPT ![c] = "loop"]
    /\ fileBuffer' = [fileBuffer EXCEPT ![c] = NoBuffer]
    /\ UNCHANGED <<mainPdfDoc, i, pageGroups, result>>

\* the catch block of the loop body, entered with error e: two console
\* calls, and the loop goes on
CatchAndSkip(c, e) ==
    /\ Log(c, <<Ev(e, i[c]), Ev("console.error", i[c]), Ev("console.warn", i[c])>>)
    /\ NextFile(c, <<>>)
    /\ UNCHANGED mainPdfDoc

\* an iteration that starts the decode of its entry and goes on to the next
\* entry without awaiting it
LoopIterNoAwait(c) ==
    /\ pc[c] = "loop"
    /\ i[c] < Len(files[c].items)
    /\ LET file == CurrentFile(c)
       IN  IF InvalidFileObject(file)
           THEN SkipInvalid(c)
           ELSE LET branch == Dispatch(Extension(file))
                IN  IF branch = "unsupported"
                    THEN SkipUnsupported(c)
                    ELSE /\ i' = [i EXCEPT ![c] = @ + 1]
                         /\ Log(c, <<Ev(branch, i[c])>>)
                         /\ UNCHANGED <<pc, fileBuffer, mainPdfDoc, pageGroups, result>>
    /\ UNCHANGED <<files, outputPdfPath, docCreated, fsAtCall, fsDirs, fsFiles>>
    /\ UNCHANGED hvars

\* one iteration, from the loop test to the first await of the body or, for
\* an entry that needs none, to the continue
LoopIter(c) ==
    /\ pc[c] = "loop"
    /\ i[c] < Len(files[c].items)
    /\ LET file == CurrentFile(c)
       IN  IF InvalidFileObject(file)
           THEN SkipInvalid(c)
           ELSE LET branch == Dispatch(Extension(file))
                IN  IF branch = "unsupported"
                    THEN SkipUnsupported(c)
                    ELSE /\ fileBuffer' =
                              [fileBuffer EXCEPT ![c] = BufferFrom(file.fileData.s)]
                         /\ pc' = [pc EXCEPT ![c] = branch]
                         /\ Log(c, <<Ev(branch, i[c])>>)
                         /\ UNCHANGED <<i, mainPdfDoc, pageGroups, result>>
    /\ UNCHANGED <<files, outputPdfPath, docCreated, fsAtCall, fsDirs, fsFiles>>
    /\ UNCHANGED hvars

\* the image page put in front of the pages already there
AddImagePageFirst(c) ==
    LET page == ImagePage(CurrentFile(c).fileData.s, fileBuffer[c])
    IN  /\ mainPdfDoc' = [mainPdfDoc EXCEPT ![c] = <<page>> \o @]
        /\ Log(c, <<Ev("addPage", i[c]), Ev("drawImage", i[c])>>)
        /\ NextFile(c, <<page>>)

\* addPage([width, height]) and drawImage of the embedded image
AddImagePage(c) ==
    LET page == ImagePage(CurrentFile(c).fileData.s, fileBuffer[c])
    IN  /\ mainPdfDoc' = [mainPdfDoc EXCEPT ![c] = Append(@, page)]
        /\ Log(c, <<Ev("addPage", i[c]), Ev("drawImage", i[c])>>)
        /\ NextFile(c, <<page>>)

\* mainPdfDoc.embedPng(fileBuffer) settles
EmbedPngSettled(c) ==
    /\ pc[c] = "embedPng"
    /\ IF embedPngOk(fileBuffer[c]) THEN AddImagePage(c) ELSE CatchAndSkip(c, ERR_DECODE)
    /\ UNCHANGED <<files, outputPdfPath, docCreated, fsAtCall, fsDirs, fsFiles>>
    /\ UNCHANGED hvars

\* mainPdfDoc.embedJpg(fileBuffer) settles
EmbedJpgSettled(c) ==
    /\ pc[c] = "embedJpg"
    /\ IF embedJpgOk(fileBuffer[c]) THEN AddImagePage(c) ELSE CatchAndSkip(c, ERR_DECODE)
    /\ UNCHANGED <<files, outputPdfPath, docCreated, fsAtCall, fsDirs, fsFiles>>
    /\ UNCHANGED hvars

\* PDFDocument.load(fileBuffer) settles; on success getPageIndices() and the
\* call of mainPdfDoc.copyPages
LoadSettled(c) ==
    /\ pc[c] = "load"
    /\ IF loadOk(fileBuffer[c])
       THEN /\ pc' = [pc EXCEPT ![c] = "copyPages"]
            /\ Log(c, <<Ev("copyPages", i[c])>>)
            /\ UNCHANGED <<mainPdfDoc, i, fileBuffer, pageGroups, result>>
       ELSE CatchAndSkip(c, ERR_DECODE)
    /\ UNCHANGED <<files, outputPdfPath, docCreated, fsAtCall, fsDirs, fsFiles>>
    /\ UNCHANGED hvars

\* sourcePdfDoc.getPageIndices(): 0 .. pageCount - 1, here from 1
getPageIndices(buf) == [k \in 1..Len(buf.pages) |-> k]

\* copies that come back last page first
copyPagesReversed(src, buf, pageIndices) ==
    [k \in 1..Len(pageIndices) |->
        LiftedPage(src, buf, pageIndices[Len(pageIndices) + 1 - k])]

\* mainPdfDoc.copyPages(sourcePdfDoc, pageIndices): one copy per index, in
\* the order of the indices
copyPages(src, buf, pageIndices) ==
    [k \in 1..Len(pageIndices) |-> LiftedPage(src, buf, pageIndices[k])]

\* copyPages resolves: copiedPages.forEach(page => mainPdfDoc.addPage(page))
CopyPagesSettled(c) ==
    /\ pc[c] = "copyPages"
    /\ LET copiedPages == copyPages(CurrentFile(c).fileData.s, fileBuffer[c],
                                    getPageIndices(fileBuffer[c]))
       IN  /\ mainPdfDoc' = [mainPdfDoc EXCEPT ![c] = @ \o copiedPages]
           /\ Log(c, [k \in 1..Len(copiedPages) |-> Ev("addPage", i[c])])
           /\ NextFile(c, copiedPages)
    /\ UNCHANGED <<files, outputPdfPath, docCreated, fsAtCall, fsDirs, fsFiles>>
    /\ UNCHANGED hvars

(***************************************************************************)
(* After the loop: the page count check, save, and the write.              *)
(***************************************************************************)
\* mainPdfDoc.getPageCount()
getPageCount(doc) == Len(doc)

\* a loop exit with no empty-result check: save() is called whatever the
\* page count
LoopExitNoCheck(c) ==
    /\ pc[c] = "loop"
    /\ ~(i[c] < Len(files[c].items))
    /\ pc' = [pc EXCEPT ![c] = "save"]
    /\ Log(c, <<Ev("save", i[c])>>)
    /\ UNCHANGED <<files, outputPdfPath, mainPdfDoc, docCreated, i, fileBuffer,
                   pageGroups, fsAtCall, fsDirs, fsFiles, result>>
    /\ UNCHANGED hvars

\* the loop test fails: the empty-result check, then the call of save()
LoopExit(c) ==
    /\ pc[c] = "loop"
    /\ ~(i[c] < Len(files[c].items))
    /\ IF getPageCount(mainPdfDoc[c]) = 0
       THEN /\ Throw(c, ERR_NO_PAGES)
            /\ UNCHANGED trace
       ELSE /\ pc' = [pc EXCEPT ![c] = "save"]
            /\ Log(c, <<Ev("save", i[c])>>)
            /\ UNCHANGED result
    /\ UNCHANGED <<files, outputPdfPath, mainPdfDoc, docCreated, i, fileBuffer,
                   pageGroups, fsAtCall, fsDirs, fsFiles>>
    /\ UNCHANGED hvars

\* what the environment lets save, mkdirSync and writeFileSync do
SaveOutcomes == {"ok", "fails"}
MkdirOutcomes == {"ok", "fails"}
WriteOutcomes == {"ok", "fails", "failsTruncated"}

\* a failure that is caught and thrown again as a new error
WriteFailureWrapped(c, e, evs) ==
    /\ Log(c, evs \o <<Ev(e, i[c])>>)
    /\ Throw(c, "Failed to save PDF")

\* save, mkdirSync or writeFileSync fails with error e after the calls evs:
\* nothing catches it
WriteFailure(c, e, evs) ==
    /\ Log(c, evs \o <<Ev(e, i[c])>>)
    /\ Throw(c, e)

\* the return of the function
ReturnPath(c) ==
    /\ result' = [result EXCEPT ![c] = Resolved(outputPdfPath[c])]
    /\ pc' = [pc EXCEPT ![c] = "resolved"]

\* save() settles with outcome sv; when it resolves, existsSync, mkdirSync
\* (outcome mk) and writeFileSync (outcome wr) follow without an await
SaveSettled(c, sv, mk, wr) ==
    /\ pc[c] = "save"
    /\ LET finalPdfBytes == Serialize(mainPdfDoc[c])
           target == outputPdfPath[c].s
           outputDir == dirname(target)
           missing == ~existsSync(fsDirs, outputDir)
           made == <<Ev("existsSync", i[c])>>
                   \o (IF missing THEN <<Ev("mkdirSync", i[c])>> ELSE <<>>)
       IN  IF sv # "ok"
           THEN /\ WriteFailure(c, ERR_SAVE, <<>>)
                /\ UNCHANGED <<fsDirs, fsFiles>>
           ELSE IF missing /\ mk # "ok"
           THEN /\ WriteFailure(c, ERR_MKDIR, made)
                /\ UNCHANGED <<fsDirs, fsFiles>>
           ELSE /\ fsDirs' = IF missing THEN mkdirRecursive(fsDirs, outputDir)
                                        ELSE fsDirs
                /\ IF wr = "ok"
                   THEN /\ fsFiles' = [fsFiles EXCEPT ![target] = finalPdfBytes]
                        /\ Log(c, made \o <<Ev("writeFileSync", i[c])>>)
                        /\ ReturnPath(c)
                   ELSE /\ fsFiles' = IF wr = "failsTruncated"
                                      THEN [fsFiles EXCEPT ![target] = Truncated]
                                      ELSE fsFiles
                        /\ WriteFailure(c, ERR_WRITE,
                                        made \o <<Ev("writeFileSync", i[c])>>)
    /\ UNCHANGED <<files, outputPdfPath, mainPdfDoc, docCreated, i, fileBuffer,
                   pageGroups, fsAtCall>>
    /\ UNCHANGED hvars

(***************************************************************************)
(* One invocation, on any input of the model.                              *)
(***************************************************************************)
\* the invocation under study is made, with any arguments of the model
Invoke ==
    /\ pc[1] = "idle"
    /\ \E f \in FilesArgs, p \in PathArgs : Call(1, f, p)
    /\ UNCHANGED hvars

\* a step of the invocation c
Step(c) ==
    \/ CreateSettled(c)
    \/ LoopIter(c)
    \/ EmbedPngSettled(c)
    \/ EmbedJpgSettled(c)
    \/ LoadSettled(c)
    \/ CopyPagesSettled(c)
    \/ LoopExit(c)
    \/ \E sv \in SaveOutcomes, mk \in MkdirOutcomes, wr \in WriteOutcomes :
          SaveSettled(c, sv, mk, wr)

Next ==
    \/ Invoke
    \/ \E c \in Calls : Step(c)

Spec == Init /\ [][Next]_vars

(***************************************************************************)
(* A second invocation, made when the first has settled, on the same       *)
(* entries in another order.                                               *)
(***************************************************************************)
Permute(items, p) == [k \in 1..Len(items) |-> items[p[k]]]

InvokePermuted ==
    /\ pc[1] \in {"resolved", "rejected"}
    /\ pc[2] = "idle"
    /\ files[1].isArray
    /\ outputPdfPath[1].t = "string" /\ outputPdfPath[1].s # <<>>
    /\ \E p \in Permutations(1..Len(files[1].items)) :
          Call(2, ArrayOf(Permute(files[1].items, p)), outputPdfPath[1])
    /\ UNCHANGED hvars

NextPerm ==
    \/ Next
    \/ InvokePermuted

\* the two invocations start from the filesystem of a fresh container: /tmp
\* exists and holds no merged document
InitPerm ==
    /\ Init
    /\ fsDirs = {<<"tmp">>}
    /\ \A t \in Targets : fsFiles[t] = NoFile

SpecPerm == InitPerm /\ [][NextPerm]_vars

(***************************************************************************)
(* The invocation under fair scheduling: an await that can settle does     *)
(* settle, by resolving or by rejecting (the event loop runs every         *)
(* continuation that is ready).                                            *)
(***************************************************************************)
SpecLive == InitPerm /\ [][Next]_vars /\ \A c \in Calls : WF_vars(Step(c))

(***************************************************************************)
(* The invocation with pdf-lib throwing inside the try block after a page  *)
(* was added: drawImage on the page addPage just made, or addPage of a     *)
(* copied page after earlier copies went in.  The catch block is the same  *)
(* for every statement of the try block; nothing in it removes a page.     *)
(***************************************************************************)
ERR_DRAW == "pdf-lib: drawImage threw"
ERR_APPEND == "pdf-lib: addPage threw"

\* the page addPage([width, height]) made, with nothing drawn on it
BlankPage(src, buf) ==
    [src |-> src, n |-> 1, w |-> buf.w, h |-> buf.h, content |-> "blank"]

\* embedPng / embedJpg resolved, addPage([width, height]) returned, and
\* page.drawImage throws: the catch block, and the loop goes on
DrawImageThrows(c) ==
    /\ \/ pc[c] = "embedPng" /\ embedPngOk(fileBuffer[c])
       \/ pc[c] = "embedJpg" /\ embedJpgOk(fileBuffer[c])
    /\ LET page == BlankPage(CurrentFile(c).fileData.s, fileBuffer[c])
       IN  /\ mainPdfDoc' = [mainPdfDoc EXCEPT ![c] = Append(@, page)]
           /\ Log(c, <<Ev("addPage", i[c]), Ev("drawImage", i[c]), Ev(ERR_DRAW, i[c]),
                       Ev("console.error", i[c]), Ev("console.warn", i[c])>>)
           /\ NextFile(c, <<page>>)
    /\ UNCHANGED <<files, outputPdfPath, docCreated, fsAtCall, fsDirs, fsFiles>>
    /\ UNCHANGED hvars

\* copyPages resolved, and in the forEach the addPage of copy number m
\* throws, the m - 1 copies before it already in the document
AddCopiedPageThrows(c) ==
    /\ pc[c] = "copyPages"
    /\ LET copiedPages == copyPages(CurrentFile(c).fileData.s, fileBuffer[c],
                                    getPageIndices(fileBuffer[c]))
       IN  \E m \in 1..Len(copiedPages) :
              /\ mainPdfDoc' = [mainPdfDoc EXCEPT ![c] = @ \o SubSeq(copiedPages, 1, m - 1)]
              /\ Log(c, [k \in 1..m |-> Ev("addPage", i[c])]
                        \o <<Ev(ERR_APPEND, i[c]), Ev("console.error", i[c]),
                             Ev("console.warn", i[c])>>)
              /\ NextFile(c, SubSeq(copiedPages, 1, m - 1))
    /\ UNCHANGED <<files, outputPdfPath, docCreated, fsAtCall, fsDirs, fsFiles>>
    /\ UNCHANGED hvars

NextThrows ==
    \/ Next
    \/ \E c \in Calls : DrawImageThrows(c)
    \/ \E c \in Calls : AddCopiedPageThrows(c)

SpecThrows == InitPerm /\ [][NextThrows]_vars

(***************************************************************************)
(* callGoogleGenAIOCRBatch(files): the parts of the OCR request.           *)
(***************************************************************************)
MIME_PNG == "image/png"
MIME_JPEG == "image/jpeg"
MIME_PDF == "application/pdf"
\* mimeType is declared and assigned by no case of the switch
MIME_UNDEFINED == "undefined"

\* the switch on the extension: the default case warns and falls out of the
\* switch with mimeType unassigned
MimeType(extension) ==
    IF extension = EXT_PNG THEN MIME_PNG
    ELSE IF extension = EXT_JPG \/ extension = EXT_JPEG THEN MIME_JPEG
    ELSE IF extension = EXT_PDF THEN MIME_PDF
    ELSE MIME_UNDEFINED

InlinePart(base64Data, mimeType) ==
    [kind |-> "inlineData", data |-> base64Data, mimeType |-> mimeType]
TextPart == [kind |-> "text", data |-> "promptTemplate", mimeType |-> ""]

PassesValidation(file) == ~InvalidFileObject(file)

\* the loop over files: an entry that fails the validation is skipped, every
\* other entry is pushed as an inline part, and the prompt is pushed last
ContentParts(items) ==
    LET kept == SelectSeq(items, PassesValidation)
    IN  [k \in 1..Len(kept) |->
            InlinePart(kept[k].fileData.s, MimeType(Extension(kept[k])))]
        \o <<TextPart>>

(***************************************************************************)
(* The Lambda handler.                                                     *)
(***************************************************************************)
HEv(op, what) == [op |-> op, what |-> what]

\* return { statusCode: code, ... }
Respond(c, code, evs) ==
    /\ hpc' = [hpc EXCEPT ![c] = "returned"]
    /\ response' = [response EXCEPT ![c] = [statusCode |-> code]]
    /\ htrace' = [htrace EXCEPT ![c] = @ \o evs]

\* a catch block that throws the error again: the handler's promise rejects
HandlerCatchRethrow(c, evs) ==
    /\ hpc' = [hpc EXCEPT ![c] = "threw"]
    /\ htrace' = [htrace EXCEPT ![c] = @ \o evs]
    /\ UNCHANGED response

\* the catch block of the handler: whatever was thrown, a 500 response
HandlerCatch(c, evs) == Respond(c, 500, evs)

\* the handler suspends at an await
Await(c, at, evs) ==
    /\ hpc' = [hpc EXCEPT ![c] = at]
    /\ htrace' = [htrace EXCEPT ![c] = @ \o evs]
    /\ UNCHANGED response

\* handler(event), to its first await or to its return
handler(c, ev) ==
    /\ hpc[c] = "idle"
    /\ event' = [event EXCEPT ![c] = ev]
    /\ IF ~BUCKET_NAME THEN Respond(c, 500, <<>>)
       ELSE IF ev.kind = "notObject" THEN HandlerCatch(c, <<HEv("task", "threw")>>)
       ELSE IF ev.kind = "noType" THEN HandlerCatch(c, <<HEv("task.type", "threw")>>)
       ELSE IF ev.kind = "update"
       THEN IF ~ev.title \/ ~ev.content
            THEN HandlerCatch(c, <<HEv("update", "threw")>>)
            ELSE Await(c, "update.updateS3Items", <<HEv("updateS3Items", "called")>>)
       ELSE IF ev.kind = "create"
       THEN IF ~ev.files.isArray \/ Len(ev.files.items) = 0
            THEN HandlerCatch(c, <<HEv("create", "threw")>>)
            ELSE Await(c, "getS3Folders", <<HEv("callGoogleGenAIOCRBatch", "called"),
                                            HEv("getS3Folders", "called")>>)
       ELSE IF ev.kind = "deploy"
       THEN Await(c, "deploy.startec2", <<HEv("startec2", "called")>>)
       ELSE IF ev.kind = "downloadMD"
       THEN IF ~ev.title
            THEN HandlerCatch(c, <<HEv("downloadMD", "threw")>>)
            ELSE Await(c, "getMarkdownContent", <<HEv("getMarkdownContent", "called")>>)
       ELSE IF ev.kind = "download"
       THEN IF ~ev.title
            THEN HandlerCatch(c, <<HEv("download", "threw")>>)
            ELSE Await(c, "getS3PdfKeys", <<HEv("getS3PdfKeys", "called")>>)
       ELSE Respond(c, 400, <<>>)
    /\ UNCHANGED <<BUCKET_NAME, contentParts, pdfBody, s3Document>>
    /\ UNCHANGED pdfVars

\* what a collaborator's promise does
Settles == {"resolves", "rejects"}

\* getS3Folders settles; when it resolves, the parts are built and
\* model.generateContent is called.  A rejection is thrown out of
\* callGoogleGenAIOCRBatch into the catch block of the handler.
GetS3FoldersSettled(c, how) ==
    /\ hpc[c] = "getS3Folders"
    /\ IF how = "rejects"
       THEN /\ HandlerCatch(c, <<HEv("getS3Folders", "rejected"),
                                  HEv("callGoogleGenAIOCRBatch", "rejected")>>)
            /\ UNCHANGED contentParts
       ELSE /\ contentParts' = [contentParts EXCEPT ![c] =
                                    ContentParts(event[c].files.items)]
            /\ Await(c, "generateContent", <<HEv("generateContent", "called")>>)
    /\ UNCHANGED <<BUCKET_NAME, event, pdfBody, s3Document>>
    /\ UNCHANGED pdfVars

\* model.generateContent settles; when it resolves,
\* createSinglePdfFromFiles(files, '/tmp/final_merged_document.pdf') is called
GenerateContentSettled(c, how) ==
    /\ hpc[c] = "generateContent"
    /\ IF how = "rejects"
       THEN /\ HandlerCatch(c, <<HEv("generateContent", "rejected"),
                                  HEv("callGoogleGenAIOCRBatch", "rejected")>>)
            /\ UNCHANGED pdfVars
       ELSE /\ Call(c, event[c].files, StrPath(TMP_PATH))
            /\ Await(c, "createSinglePdfFromFiles",
                     <<HEv("createSinglePdfFromFiles", "called")>>)
    /\ UNCHANGED <<BUCKET_NAME, event, contentParts, pdfBody, s3Document>>

\* the keys of the two items a create task uploads
ITEM_MARKDOWN == "+page.svelte.md"
ITEM_DOCUMENT == "document.pdf"
ItemsToUpload == <<ITEM_MARKDOWN, ITEM_DOCUMENT>>

\* what the PutObject sends of the items have done when Promise.all settles:
\* it resolves once every send has resolved and rejects as soon as one send
\* rejects, whatever the other sends have done by then
SendOutcomes == {"resolves", "rejects", "pending"}
UploadOutcomes ==
    {how \in [1..Len(ItemsToUpload) -> SendOutcomes] :
        (\E k \in DOMAIN how : how[k] = "pending") =>
            (\E k \in DOMAIN how : how[k] = "rejects")}

AllAcknowledged(how) == \A k \in DOMAIN how : how[k] = "resolves"

\* the sends that have settled, in the order of the items
RECURSIVE SendEvents(_, _)
SendEvents(how, k) ==
    IF k > Len(ItemsToUpload) THEN <<>>
    ELSE (IF how[k] = "resolves" THEN <<HEv(ItemsToUpload[k], "resolved")>>
          ELSE IF how[k] = "rejects" THEN <<HEv(ItemsToUpload[k], "rejected")>>
          ELSE <<>>) \o SendEvents(how, k + 1)

\* fs.readFileSync of a path: what the file holds, or a throw (ENOENT)
readFileSyncOk(path) == fsFiles[path].kind # "absent"

\* the promise of createSinglePdfFromFiles settles: .then logs the path,
\* .catch logs the error, and either way callGoogleGenAIOCRBatch returns the
\* text of the response; the handler splits it, reads the merged PDF from
\* /tmp and calls updateS3Items
ConsolidationSettled(c) ==
    /\ hpc[c] = "createSinglePdfFromFiles"
    /\ pc[c] \in {"resolved", "rejected"}
    /\ LET settled == <<HEv("createSinglePdfFromFiles",
                            IF pc[c] = "resolved" THEN "resolved" ELSE "rejected"),
                        HEv("callGoogleGenAIOCRBatch", "resolved")>>
       IN  IF readFileSyncOk(TMP_PATH)
           THEN /\ pdfBody' = [pdfBody EXCEPT ![c] = fsFiles[TMP_PATH]]
                /\ Await(c, "create.updateS3Items",
                         settled \o <<HEv("readFileSync", "called"),
                                      HEv("updateS3Items", "called"),
                                      HEv(ITEM_MARKDOWN, "called"),
                                      HEv(ITEM_DOCUMENT, "called")>>)
           ELSE /\ HandlerCatch(c, settled \o <<HEv("readFileSync", "threw")>>)
                /\ UNCHANGED pdfBody
    /\ UNCHANGED <<BUCKET_NAME, event, contentParts, s3Document>>
    /\ UNCHANGED pdfVars

\* updateS3Items that goes on whatever the sends did (no await of Promise.all)
CreateUploadNotAwaited(c, how) ==
    /\ hpc[c] = "create.updateS3Items"
    /\ s3Document' = [s3Document EXCEPT ![c] =
                         IF how[2] = "resolves" THEN pdfBody[c] ELSE @]
    /\ Await(c, "create.startec2", SendEvents(how, 1) \o <<HEv("startec2", "called")>>)
    /\ UNCHANGED <<BUCKET_NAME, event, contentParts, pdfBody>>
    /\ UNCHANGED pdfVars

\* updateS3Items of a create task settles; the bucket holds document.pdf with
\* the body that was read when the send of that item resolved; when every
\* send resolved startec2 is called, otherwise the rejection is thrown into
\* the catch block of the handler
CreateUploadSettled(c, how) ==
    /\ hpc[c] = "create.updateS3Items"
    /\ s3Document' = [s3Document EXCEPT ![c] =
                         IF how[2] = "resolves" THEN pdfBody[c] ELSE @]
    /\ IF AllAcknowledged(how)
       THEN Await(c, "create.startec2",
                  SendEvents(how, 1) \o <<HEv("updateS3Items", "resolved"),
                                          HEv("startec2", "called")>>)
       ELSE HandlerCatch(c, SendEvents(how, 1) \o <<HEv("updateS3Items", "rejected")>>)
    /\ UNCHANGED <<BUCKET_NAME, event, contentParts, pdfBody>>
    /\ UNCHANGED pdfVars

\* startec2 of a create task settles
CreateStartEc2Settled(c, how) ==
    /\ hpc[c] = "create.startec2"
    /\ IF how = "rejects"
       THEN HandlerCatch(c, <<HEv("startec2", "rejected")>>)
       ELSE Respond(c, 200, <<HEv("startec2", "resolved")>>)
    /\ UNCHANGED <<BUCKET_NAME, event, contentParts, pdfBody, s3Document>>
    /\ UNCHANGED pdfVars

\* updateS3Items of an update task settles
UpdateUploadSettled(c, how) ==
    /\ hpc[c] = "update.updateS3Items"
    /\ IF how = "rejects"
       THEN HandlerCatch(c, <<HEv("updateS3Items", "rejected")>>)
       ELSE Respond(c, 200, <<>>)
    /\ UNCHANGED <<BUCKET_NAME, event, contentParts, pdfBody, s3Document>>
    /\ UNCHANGED pdfVars

\* startec2 of a deploy task settles; its rejection is caught by the try of
\* the deploy branch, which returns 500 itself
DeployStartEc2Settled(c, how) ==
    /\ hpc[c] = "deploy.startec2"
    /\ IF how = "rejects"
       THEN Respond(c, 500, <<HEv("startec2", "rejected")>>)
       ELSE Respond(c, 200, <<>>)
    /\ UNCHANGED <<BUCKET_NAME, event, contentParts, pdfBody, s3Document>>
    /\ UNCHANGED pdfVars

\* getMarkdownContent settles
GetMarkdownContentSettled(c, how) ==
    /\ hpc[c] = "getMarkdownContent"
    /\ IF how = "rejects"
       THEN HandlerCatch(c, <<HEv("getMarkdownContent", "rejected")>>)
       ELSE Respond(c, 200, <<>>)
    /\ UNCHANGED <<BUCKET_NAME, event, contentParts, pdfBody, s3Document>>
    /\ UNCHANGED pdfVars

\* getS3PdfKeys settles: rejected, resolved with no key, or with keys, and
\* then getPresignedUrlForPdf is called for the first key
KeysOutcomes == {"rejects", "noKey", "keys"}

GetS3PdfKeysSettled(c, how) ==
    /\ hpc[c] = "getS3PdfKeys"
    /\ IF how = "rejects"
       THEN HandlerCatch(c, <<HEv("getS3PdfKeys", "rejected")>>)
       ELSE IF how = "noKey"
       THEN Respond(c, 404, <<HEv("getS3PdfKeys", "noKey")>>)
       ELSE Await(c, "getPresignedUrlForPdf", <<HEv("getPresignedUrlForPdf", "called")>>)
    /\ UNCHANGED <<BUCKET_NAME, event, contentParts, pdfBody, s3Document>>
    /\ UNCHANGED pdfVars

\* getPresignedUrlForPdf settles
GetPresignedUrlForPdfSettled(c, how) ==
    /\ hpc[c] = "getPresignedUrlForPdf"
    /\ IF how = "rejects"
       THEN HandlerCatch(c, <<HEv("getPresignedUrlForPdf", "rejected")>>)
       ELSE Respond(c, 200, <<>>)
    /\ UNCHANGED <<BUCKET_NAME, event, contentParts, pdfBody, s3Document>>
    /\ UNCHANGED pdfVars

(***************************************************************************)
(* The events, and the handler run once, twice in a row, and twice at the  *)
(* same time.                                                              *)
(***************************************************************************)
Task(kind, title, content, f) ==
    [kind |-> kind, title |-> title, content |-> content, files |-> f]

\* the events of the model: a payload that is no object, a task with no
\* type, each task type with and without its required fields, a create
\* task for each files value of F, and a type the handler does not know
Events(F) ==
    {Task("notObject", FALSE, FALSE, NotAnArray), Task("noType", TRUE, TRUE, NotAnArray),
     Task("deploy", FALSE, FALSE, NotAnArray), Task("unknown", TRUE, TRUE, NotAnArray)}
    \cup {Task("update", t, n, NotAnArray) : t \in BOOLEAN, n \in BOOLEAN}
    \cup {Task("create", TRUE, FALSE, f) : f \in F}
    \cup {Task(k, t, FALSE, NotAnArray) : k \in {"downloadMD", "download"}, t \in BOOLEAN}

\* a step of the handler invocation c: one of its awaits settles, or the
\* call of createSinglePdfFromFiles it waits for takes a step
HandlerStep(c) ==
    \/ \E how \in Settles : GetS3FoldersSettled(c, how)
    \/ \E how \in Settles : GenerateContentSettled(c, how)
    \/ Step(c)
    \/ ConsolidationSettled(c)
    \/ \E how \in UploadOutcomes : CreateUploadSettled(c, how)
    \/ \E how \in Settles : CreateStartEc2Settled(c, how)
    \/ \E how \in Settles : UpdateUploadSettled(c, how)
    \/ \E how \in Settles : DeployStartEc2Settled(c, how)
    \/ \E how \in Settles : GetMarkdownContentSettled(c, how)
    \/ \E how \in KeysOutcomes : GetS3PdfKeysSettled(c, how)
    \/ \E how \in Settles : GetPresignedUrlForPdfSettled(c, how)

\* the container: /tmp exists, with or without a merged PDF of an earlier
\* invocation in it; the bucket name set or not
InitHandler ==
    /\ PdfIdle
    /\ fsDirs = {<<"tmp">>}
    /\ fsFiles[DEEP_PATH] = NoFile
    /\ HandlerIdle
    /\ BUCKET_NAME \in BOOLEAN

InvokeHandler ==
    /\ hpc[1] = "idle"
    /\ \E ev \in Events(FilesArgs) : handler(1, ev)

NextHandler ==
    \/ InvokeHandler
    \/ HandlerStep(1)

SpecHandler == InitHandler /\ [][NextHandler]_vars

\* a fresh container: /tmp exists and is empty, the bucket name is set
InitFresh ==
    /\ InitPerm
    /\ BUCKET_NAME = TRUE

MaxBatchFiles == 1

BatchArgs == {ArrayOf(q) : q \in SeqsUpTo(Entries, MaxBatchFiles)} \cup {NotAnArray}

\* the container takes a second event when it has answered the first
InvokeFirst ==
    /\ hpc[1] = "idle"
    /\ \E ev \in Events(BatchArgs) : handler(1, ev)

InvokeSecond ==
    /\ hpc[1] = "returned"
    /\ hpc[2] = "idle"
    /\ \E ev \in Events(BatchArgs) : handler(2, ev)

NextHandlerSeq ==
    \/ InvokeFirst
    \/ InvokeSecond
    \/ \E c \in Calls : HandlerStep(c)

SpecHandlerSeq == InitFresh /\ [][NextHandlerSeq]_vars

\* two invocations in one process, each started at any time
InvokeAny(c) ==
    /\ hpc[c] = "idle"
    /\ \E ev \in Events(BatchArgs) : handler(c, ev)

NextHandlerConc ==
    \/ \E c \in Calls : InvokeAny(c)
    \/ \E c \in Calls : HandlerStep(c)

SpecHandlerConc == InitFresh /\ [][NextHandlerConc]_vars

\* the handler run once on an event with a short batch, every await
\* settling (each collaborator's promise resolves or rejects)
NextHandlerOnce ==
    \/ InvokeFirst
    \/ HandlerStep(1)

SpecHandlerLive == InitHandler /\ [][NextHandlerOnce]_vars /\ WF_vars(HandlerStep(1))

TypeOK ==
    /\ \A c \in Calls : pc[c] \in {"idle", "create", "loop", "embedPng", "embedJpg",
                                   "load", "copyPages", "save", "resolved", "rejected"}
    /\ \A c \in Calls : i[c] <= Len(files[c].items)
    /\ \A c \in Calls : Len(pageGroups[c]) = i[c]

(***************************************************************************)
(* The vocabulary of the properties, stated on the inputs alone.           *)
(***************************************************************************)
\* the declared format of a file name: its last "." and what follows it,
\* whatever the case of the letters; a name with no "." after its first
\* character declares none
DeclaredFormat(name) ==
    LET dots == {k \in 2..Len(name) : name[k] = "."}
        ext == IF dots = {} THEN <<>>
               ELSE toLowerCase(SubSeq(name, Max(dots), Len(name)))
    IN  IF ext = <<".", "p", "n", "g">> THEN "raster-png"
        ELSE IF ext = <<".", "j", "p", "g">> \/ ext = <<".", "j", "p", "e", "g">>
             THEN "raster-jpeg"
        ELSE IF ext = <<".", "p", "d", "f">> THEN "pdf"
        ELSE "unsupported"

\* the entry has a string name and a string payload
WellFormed(e) == e.obj /\ e.fileName.t = "string" /\ e.fileData.t = "string"

\* the entry lacks a non-empty name or a non-empty string payload
Lacking(e) == ~WellFormed(e) \/ e.fileName.s = <<>> \/ e.fileData.s = ""

\* the format the payload bytes really have
BytesFormat(e) ==
    LET fmt == BufferFrom(e.fileData.s).fmt
    IN  IF fmt = "png" THEN "raster-png"
        ELSE IF fmt = "jpeg" THEN "raster-jpeg"
        ELSE IF fmt = "pdf" THEN "pdf"
        ELSE "undecodable"

\* a valid entry: a recognised format, and bytes of that format
ValidEntry(e) ==
    /\ WellFormed(e)
    /\ DeclaredFormat(e.fileName.s) # "unsupported"
    /\ BytesFormat(e) = DeclaredFormat(e.fileName.s)

ValidRaster(e) ==
    ValidEntry(e) /\ DeclaredFormat(e.fileName.s) \in {"raster-png", "raster-jpeg"}

\* a corrupt entry: a recognised format, and bytes that do not decode as it
CorruptEntry(e) ==
    /\ WellFormed(e)
    /\ DeclaredFormat(e.fileName.s) # "unsupported"
    /\ BytesFormat(e) # DeclaredFormat(e.fileName.s)

\* the pages a valid entry stands for: the image on a page of its own size,
\* or the pages of the PDF in their order
SourcePages(e) ==
    LET buf == BufferFrom(e.fileData.s)
    IN  IF buf.fmt = "pdf"
        THEN [n \in 1..Len(buf.pages) |->
                [src |-> e.fileData.s, n |-> n, w |-> buf.pages[n].w,
                 h |-> buf.pages[n].h, content |-> "lifted"]]
        ELSE <<[src |-> e.fileData.s, n |-> 1, w |-> buf.w, h |-> buf.h,
                content |-> "image"]>>

\* the page group of an entry: its pages if it is valid, none if skipped
PageGroup(e) == IF ValidEntry(e) THEN SourcePages(e) ELSE <<>>

RECURSIVE Flatten(_)
Flatten(groups) ==
    IF groups = <<>> THEN <<>> ELSE Head(groups) \o Flatten(Tail(groups))

\* the groups of the entries, concatenated in the order of the list
ExpectedPages(items) == Flatten([k \in 1..Len(items) |-> PageGroup(items[k])])

\* the loop of invocation c has ended
PastLoop(c) ==
    \/ pc[c] \in {"save", "resolved"}
    \/ pc[c] = "rejected" /\ docCreated[c]

Ops(c, k, ops) == {n \in 1..Len(trace[c]) : trace[c][n].idx = k /\ trace[c][n].op \in ops}

DecodeCalls == {"embedPng", "embedJpg", "load"}
WriteCalls == {"save", "existsSync", "mkdirSync", "writeFileSync"}

\* file k of invocation c was visited by the loop
Visited(c, k) == Ops(c, k, DecodeCalls \cup {"console.warn"}) # {}

FsUntouchedSince(c) == fsDirs = fsAtCall[c].dirs /\ fsFiles = fsAtCall[c].files

NonEmptyList(c) == files[c].isArray /\ Len(files[c].items) > 0

(***************************************************************************)
(* C1: an error raised while processing file i never escapes the call and  *)
(* never stops the loop: the loop moves on to file i + 1, every file of    *)
(* the list is visited before the loop ends, and for a list with exactly   *)
(* one corrupt entry among valid ones the document holds the pages of the  *)
(* valid entries and none for the corrupt one.                             *)
(***************************************************************************)
OneCorruptRestValid(items) ==
    /\ Cardinality({k \in 1..Len(items) : CorruptEntry(items[k])}) = 1
    /\ \A k \in 1..Len(items) : CorruptEntry(items[k]) \/ ValidEntry(items[k])

C1_FaultIsolation ==
    \A c \in Calls :
        /\ \A n \in 1..Len(trace[c]) :
              trace[c][n].op = ERR_DECODE =>
                  /\ result[c].error # ERR_DECODE
                  /\ i[c] > trace[c][n].idx
        /\ PastLoop(c) =>
              /\ i[c] = Len(files[c].items)
              /\ \A k \in 0..(Len(files[c].items) - 1) : Visited(c, k)
        /\ (PastLoop(c) /\ OneCorruptRestValid(files[c].items)) =>
              /\ Len(pageGroups[c]) = Len(files[c].items)
              /\ \A k \in 1..Len(files[c].items) :
                    pageGroups[c][k] = IF CorruptEntry(files[c].items[k])
                                       THEN <<>>
                                       ELSE SourcePages(files[c].items[k])
              /\ mainPdfDoc[c] =
                    Flatten([k \in 1..Len(files[c].items) |->
                               IF CorruptEntry(files[c].items[k])
                               THEN <<>>
                               ELSE SourcePages(files[c].items[k])])

\* a corrupt first entry was caught, and the valid entry after it has its
\* page in the document that was written
C1_Witness ==
    /\ pc[1] = "resolved"
    /\ files[1].items = <<Entry(StrName(NAME_A_PNG), StrData("GARBAGE")),
                          Entry(StrName(NAME_C_JPG), StrData("JPG_A"))>>
    /\ Ops(1, 0, {ERR_DECODE}) # {}
    /\ Len(mainPdfDoc[1]) = 1

(***************************************************************************)
(* C2: the page sequence of the document is the concatenation, in the      *)
(* order of the input list, of the page groups of the entries: while the   *)
(* loop runs, of the entries done so far; once it has ended, of all.       *)
(***************************************************************************)
C2_PageOrder ==
    \A c \in Calls :
        /\ (pc[c] = "loop" /\ files[c].isArray) =>
              mainPdfDoc[c] = ExpectedPages(SubSeq(files[c].items, 1, i[c]))
        /\ (PastLoop(c) /\ files[c].isArray) =>
              mainPdfDoc[c] = ExpectedPages(files[c].items)
        /\ pc[c] = "resolved" =>
              fsFiles[outputPdfPath[c].s].pages = ExpectedPages(files[c].items)

\* an image and then a two-page PDF: three pages, in that order
C2_Witness ==
    /\ pc[1] = "resolved"
    /\ files[1].items = <<Entry(StrName(NAME_A_PNG), StrData("PNG_A")),
                          Entry(StrName(NAME_E_PDF), StrData("PDF_2"))>>
    /\ Len(mainPdfDoc[1]) = 3
    /\ mainPdfDoc[1][1].src = "PNG_A"
    /\ mainPdfDoc[1][2].src = "PDF_2" /\ mainPdfDoc[1][2].n = 1
    /\ mainPdfDoc[1][3].src = "PDF_2" /\ mainPdfDoc[1][3].n = 2

(***************************************************************************)
(* C3: when no entry of a non-empty list is usable (each is malformed,     *)
(* corrupt or of an unsupported extension), the call, once its loop has    *)
(* ended, rejects with the empty-result error, and has made no save, no    *)
(* existsSync, no mkdirSync and no writeFileSync: the directories and the  *)
(* files are as they were when the call was made.                          *)
(***************************************************************************)
NoUsableEntry(items) == \A k \in 1..Len(items) : ~ValidEntry(items[k])

C3_EmptyResult ==
    \A c \in Calls :
        (NonEmptyList(c) /\ NoUsableEntry(files[c].items) /\ PastLoop(c)) =>
            /\ pc[c] = "rejected"
            /\ result[c] = Rejected(ERR_NO_PAGES)
            /\ \A n \in 1..Len(trace[c]) : trace[c][n].op \notin WriteCalls
            /\ FsUntouchedSince(c)

\* a corrupt and an unsupported entry, and a stale file at the output path
\* that is still there after the rejection
C3_Witness ==
    /\ pc[1] = "rejected"
    /\ result[1].error = ERR_NO_PAGES
    /\ files[1].items = <<Entry(StrName(NAME_E_PDF), StrData("GARBAGE")),
                          Entry(StrName(NAME_F_TXT), StrData("PNG_A"))>>
    /\ outputPdfPath[1].s = TMP_PATH
    /\ fsFiles[TMP_PATH] = StaleFile

(***************************************************************************)
(* C4: when the files argument is not an array or is an empty array, the   *)
(* call rejects with the invalid-input error before anything else: no      *)
(* document is created, no library, fs or console call is made, and the    *)
(* filesystem is as it was.                                                *)
(***************************************************************************)
C4_InvalidInput ==
    \A c \in Calls :
        (pc[c] # "idle" /\ ~NonEmptyList(c)) =>
            /\ pc[c] = "rejected"
            /\ result[c] = Rejected(ERR_FILES)
            /\ ~docCreated[c]
            /\ trace[c] = <<>>
            /\ i[c] = 0 /\ mainPdfDoc[c] = <<>>
            /\ FsUntouchedSince(c)

\* an empty array with a usable output path: rejected on the first check
C4_Witness ==
    /\ pc[1] = "rejected"
    /\ files[1] = ArrayOf(<<>>)
    /\ outputPdfPath[1] = StrPath(TMP_PATH)
    /\ result[1].error = ERR_FILES

(***************************************************************************)
(* C5: a call rejects only with one of the fatal errors (invalid           *)
(* arguments, empty result, a failed save, mkdir or write); an error of a  *)
(* single file is never what it rejects with.  A call that returns has     *)
(* written a document of at least one page to the path it returns, and a   *)
(* call settles only by that return or by one fatal error.                 *)
(***************************************************************************)
FatalErrors == {ERR_FILES, ERR_PATH, ERR_NO_PAGES, ERR_SAVE, ERR_MKDIR, ERR_WRITE}

C5_FatalOnly ==
    \A c \in Calls :
        /\ result[c].status = "rejected" =>
              /\ result[c].error \in FatalErrors
              /\ pc[c] = "rejected"
        /\ pc[c] = "rejected" => result[c].status = "rejected"
        /\ pc[c] = "resolved" =>
              /\ result[c] = Resolved(outputPdfPath[c])
              /\ Len(mainPdfDoc[c]) >= 1
              /\ fsFiles[outputPdfPath[c].s] = Serialize(mainPdfDoc[c])
        /\ pc[c] \notin {"resolved", "rejected"} => result[c] = Pending

\* a decode error was absorbed and the call still ended in a fatal error,
\* the empty result
C5_Witness ==
    /\ pc[1] = "rejected"
    /\ result[1].error = ERR_NO_PAGES
    /\ \E n \in 1..Len(trace[1]) : trace[1][n].op = ERR_DECODE

(***************************************************************************)
(* C6: an error of save, mkdirSync or writeFileSync is the error the call  *)
(* rejects with, unchanged; and nothing is tried twice: at most one decode *)
(* call and one copyPages per file, at most one save, one mkdirSync and    *)
(* one writeFileSync per call.                                             *)
(***************************************************************************)
WriteErrors == {ERR_SAVE, ERR_MKDIR, ERR_WRITE}

CountOps(c, ops) == Cardinality({n \in 1..Len(trace[c]) : trace[c][n].op \in ops})

C6_NoRetry ==
    \A c \in Calls :
        /\ \A n \in 1..Len(trace[c]) :
              trace[c][n].op \in WriteErrors =>
                  /\ pc[c] = "rejected"
                  /\ result[c] = Rejected(trace[c][n].op)
        /\ CountOps(c, {"save"}) <= 1
        /\ CountOps(c, {"mkdirSync"}) <= 1
        /\ CountOps(c, {"writeFileSync"}) <= 1
        /\ \A k \in 0..Len(files[c].items) :
              /\ Cardinality(Ops(c, k, DecodeCalls)) <= 1
              /\ Cardinality(Ops(c, k, {"copyPages"})) <= 1

\* the one write failed, and the call rejected with the error of the write
C6_Witness ==
    /\ pc[1] = "rejected"
    /\ result[1] = Rejected(ERR_WRITE)
    /\ CountOps(1, {"writeFileSync"}) = 1
    /\ CountOps(1, {ERR_WRITE}) = 1

(***************************************************************************)
(* C7: for a non-empty list of valid raster images only, the document has, *)
(* once the loop has ended, as many pages as the list has entries, and     *)
(* page k has the native width and height of image k.                      *)
(***************************************************************************)
AllValidRaster(items) == \A k \in 1..Len(items) : ValidRaster(items[k])

C7_RasterPages ==
    \A c \in Calls :
        (NonEmptyList(c) /\ AllValidRaster(files[c].items) /\ PastLoop(c)) =>
            /\ Len(mainPdfDoc[c]) = Len(files[c].items)
            /\ \A k \in 1..Len(files[c].items) :
                  /\ mainPdfDoc[c][k].w = BufferFrom(files[c].items[k].fileData.s).w
                  /\ mainPdfDoc[c][k].h = BufferFrom(files[c].items[k].fileData.s).h
                  /\ mainPdfDoc[c][k].content = "image"

\* a 3 x 1 PNG and a 2 x 3 JPEG: two pages of these sizes, written
C7_Witness ==
    /\ pc[1] = "resolved"
    /\ files[1].items = <<Entry(StrName(NAME_B_PNG_UPPER), StrData("PNG_B")),
                          Entry(StrName(NAME_D_JPEG), StrData("JPG_B"))>>
    /\ Len(mainPdfDoc[1]) = 2
    /\ mainPdfDoc[1][1].w = 3 /\ mainPdfDoc[1][1].h = 1
    /\ mainPdfDoc[1][2].w = 2 /\ mainPdfDoc[1][2].h = 3

(***************************************************************************)
(* C8: when a second call is given the entries of the first in an order    *)
(* permuted by p, then, once both loops have ended, the page group of      *)
(* entry k of the second call is the page group of entry p[k] of the first,*)
(* and each document is its groups concatenated in the order of its list.  *)
(***************************************************************************)
C8_Permutation ==
    (PastLoop(1) /\ PastLoop(2)) =>
        /\ Len(pageGroups[1]) = Len(files[1].items)
        /\ Len(pageGroups[2]) = Len(files[2].items)
        /\ mainPdfDoc[1] = Flatten(pageGroups[1])
        /\ mainPdfDoc[2] = Flatten(pageGroups[2])
        /\ \A p \in Permutations(1..Len(files[1].items)) :
              files[2].items = Permute(files[1].items, p) =>
                  /\ \A k \in 1..Len(files[2].items) :
                        pageGroups[2][k] = pageGroups[1][p[k]]
                  /\ mainPdfDoc[2] =
                        Flatten([k \in 1..Len(files[2].items) |-> pageGroups[1][p[k]]])

\* a two-page PDF and an image, then the image and the PDF: the groups swap
C8_Witness ==
    /\ PastLoop(1) /\ PastLoop(2)
    /\ files[1].items = <<Entry(StrName(NAME_E_PDF), StrData("PDF_2")),
                          Entry(StrName(NAME_C_JPG), StrData("JPG_A"))>>
    /\ files[2].items = <<Entry(StrName(NAME_C_JPG), StrData("JPG_A")),
                          Entry(StrName(NAME_E_PDF), StrData("PDF_2"))>>
    /\ Len(mainPdfDoc[1]) = 3 /\ Len(mainPdfDoc[2]) = 3
    /\ mainPdfDoc[1][3] = mainPdfDoc[2][1]
    /\ mainPdfDoc[1][1] = mainPdfDoc[2][2]

(***************************************************************************)
(* C9: the pdf-lib call made for a well-formed entry is decided by the     *)
(* declared format of its name alone, letters compared whatever their      *)
(* case: embedPng for .png, embedJpg for .jpg and .jpeg, load for .pdf,    *)
(* and none for any other name, which gets a warning and no page; and a    *)
(* call never rejects before its loop has visited every entry.             *)
(***************************************************************************)
\* the loop of c has reached the dispatch of file k
Dispatched(c, k) ==
    \/ k < i[c]
    \/ k = i[c] /\ pc[c] \in {"embedPng", "embedJpg", "load", "copyPages"}

DecodeCallFor(format) ==
    IF format = "raster-png" THEN {"embedPng"}
    ELSE IF format = "raster-jpeg" THEN {"embedJpg"}
    ELSE IF format = "pdf" THEN {"load"}
    ELSE {}

C9_ExtensionOnly ==
    \A c \in Calls :
        /\ \A k \in 0..(Len(files[c].items) - 1) :
              LET e == files[c].items[k + 1]
              IN  WellFormed(e) =>
                    /\ Dispatched(c, k) =>
                          {trace[c][n].op : n \in Ops(c, k, DecodeCalls)}
                              = DecodeCallFor(DeclaredFormat(e.fileName.s))
                    /\ ~Dispatched(c, k) => Ops(c, k, DecodeCalls) = {}
                    /\ (k < i[c] /\ DeclaredFormat(e.fileName.s) = "unsupported") =>
                          /\ pageGroups[c][k + 1] = <<>>
                          /\ Ops(c, k, {"console.warn"}) # {}
                          /\ Ops(c, k, {"addPage", "drawImage", "copyPages"}) = {}
        /\ (pc[c] = "rejected" /\ docCreated[c]) => i[c] = Len(files[c].items)

\* an upper-case .PNG embedded as a PNG, and a .txt holding PNG bytes skipped
C9_Witness ==
    /\ pc[1] = "resolved"
    /\ files[1].items = <<Entry(StrName(NAME_B_PNG_UPPER), StrData("PNG_B")),
                          Entry(StrName(NAME_F_TXT), StrData("PNG_A"))>>
    /\ Ops(1, 0, {"embedPng"}) # {}
    /\ Ops(1, 1, {"console.warn"}) # {}
    /\ Len(mainPdfDoc[1]) = 1

(***************************************************************************)
(* C10: an entry that lacks a non-empty name or a non-empty string payload *)
(* gets a warning and adds no page; it is not fatal (a call whose document *)
(* was created rejects only after the whole list), and the document is,    *)
(* once the loop has ended, what the list without these entries gives.     *)
(***************************************************************************)
NotLacking(e) == ~Lacking(e)

C10_LackingDropped ==
    \A c \in Calls :
        /\ \A k \in 0..(Len(files[c].items) - 1) :
              (k < i[c] /\ Lacking(files[c].items[k + 1])) =>
                  /\ pageGroups[c][k + 1] = <<>>
                  /\ Ops(c, k, {"console.warn"}) # {}
                  /\ Ops(c, k, {"addPage"}) = {}
        /\ (pc[c] = "rejected" /\ docCreated[c]) =>
              /\ i[c] = Len(files[c].items)
              /\ result[c].error \in {ERR_NO_PAGES} \cup WriteErrors
        /\ (PastLoop(c) /\ files[c].isArray) =>
              mainPdfDoc[c] = ExpectedPages(SelectSeq(files[c].items, NotLacking))

\* a null entry first, and the valid image after it is the one page written
C10_Witness ==
    /\ pc[1] = "resolved"
    /\ files[1].items = <<NullEntry, Entry(StrName(NAME_A_PNG), StrData("PNG_A"))>>
    /\ Ops(1, 0, {"console.warn"}) # {}
    /\ mainPdfDoc[1] = SourcePages(Entry(StrName(NAME_A_PNG), StrData("PNG_A")))

(***************************************************************************)
(* C11: a call that returns had at least one page in its document; the     *)
(* directory of the output path and every ancestor of it exist afterwards, *)
(* made by one mkdirSync exactly when the directory was missing, and no    *)
(* other directory was made; the file at the output path holds the         *)
(* serialized document whatever was there before, no other file changed;   *)
(* and the value returned is the output path as it was given.              *)
(***************************************************************************)
Ancestors(d) == {SubSeq(d, 1, k) : k \in 1..Len(d)}

C11_WriteAndReturn ==
    \A c \in Calls :
        pc[c] = "resolved" =>
            LET target == outputPdfPath[c].s
                outputDir == dirname(target)
            IN  /\ Len(mainPdfDoc[c]) >= 1
                /\ Ancestors(outputDir) \subseteq fsDirs
                /\ fsDirs = fsAtCall[c].dirs \cup Ancestors(outputDir)
                /\ CountOps(c, {"mkdirSync"}) =
                      (IF existsSync(fsAtCall[c].dirs, outputDir) THEN 0 ELSE 1)
                /\ fsFiles[target] = Serialize(mainPdfDoc[c])
                /\ \A t \in Targets \ {target} : fsFiles[t] = fsAtCall[c].files[t]
                /\ result[c].status = "resolved"
                /\ result[c].value = outputPdfPath[c]

\* out/y/merged.pdf written where neither out nor out/y existed
C11_Witness ==
    /\ pc[1] = "resolved"
    /\ outputPdfPath[1] = StrPath(DEEP_PATH)
    /\ fsAtCall[1].dirs = {}
    /\ {<<"out">>, <<"out", "y">>} \subseteq fsDirs
    /\ fsFiles[DEEP_PATH] = Serialize(mainPdfDoc[1])

(***************************************************************************)
(* C12: the document is empty when it is created and until the first page  *)
(* is added by the loop; every page in it was put there by one addPage;    *)
(* save is called at most once, only when the loop has gone through the    *)
(* whole list and the document has at least one page; and after the call   *)
(* of save no decode call, no copyPages and no addPage is made, so the     *)
(* document that is written is the one that was serialized.                *)
(***************************************************************************)
PageCalls == DecodeCalls \cup {"copyPages", "addPage", "drawImage"}

C12_SerializeOnce ==
    \A c \in Calls :
        /\ pc[c] \in {"idle", "create"} => mainPdfDoc[c] = <<>>
        /\ (pc[c] = "loop" /\ i[c] = 0) => mainPdfDoc[c] = <<>>
        /\ Len(mainPdfDoc[c]) = CountOps(c, {"addPage"})
        /\ CountOps(c, {"save"}) <= 1
        /\ (CountOps(c, {"save"}) = 1) <=>
              (pc[c] \in {"save", "resolved"}
                  \/ (pc[c] = "rejected" /\ result[c].error \in WriteErrors))
        /\ \A n \in 1..Len(trace[c]) :
              trace[c][n].op = "save" =>
                  /\ i[c] = Len(files[c].items)
                  /\ trace[c][n].idx = Len(files[c].items)
                  /\ Len(mainPdfDoc[c]) >= 1
                  /\ mainPdfDoc[c] = Flatten(pageGroups[c])
                  /\ \A m \in 1..Len(trace[c]) :
                        trace[c][m].op \in PageCalls => m < n
                  /\ pc[c] = "resolved" =>
                        fsFiles[outputPdfPath[c].s].pages = Flatten(pageGroups[c])

\* save is awaited after an image and then a skipped entry: the call of save
\* is the last call made, with one page in the document
C12_Witness ==
    /\ pc[1] = "save"
    /\ files[1].items = <<Entry(StrName(NAME_A_PNG), StrData("PNG_A")),
                          Entry(StrName(NAME_F_TXT), StrData("PNG_A"))>>
    /\ trace[1][Len(trace[1])].op = "save"
    /\ Ops(1, 1, {"console.warn"}) # {}
    /\ Len(mainPdfDoc[1]) = 1

(***************************************************************************)
(* C13: the files of a call are processed one at a time, in the order of   *)
(* the list: the calls made for file k all come before those made for file *)
(* k + 1, a call for file k is made only when the iterations of the files  *)
(* before it have ended, and at no time are the decodes of two files       *)
(* waited for together: the file in flight is the one at the loop index.   *)
(***************************************************************************)
Awaits == {"embedPng", "embedJpg", "load", "copyPages"}

\* the files whose decode was called and whose iteration has not ended
InFlight(c) ==
    {k \in 0..(Len(files[c].items) - 1) :
        Ops(c, k, DecodeCalls) # {} /\ Len(pageGroups[c]) <= k}

C13_OneAtATime ==
    \A c \in Calls :
        /\ Cardinality(InFlight(c)) <= 1
        /\ pc[c] \in Awaits => InFlight(c) = {i[c]}
        /\ pc[c] \notin Awaits => InFlight(c) = {}
        /\ \A m, n \in 1..Len(trace[c]) :
              m < n => trace[c][m].idx <= trace[c][n].idx
        /\ \A n \in 1..Len(trace[c]) :
              trace[c][n].op \in PageCalls \cup {"console.warn"} =>
                  Len(pageGroups[c]) >= trace[c][n].idx

\* the decode of the second file is waited for, the first one's iteration
\* over and its page in the document
C13_Witness ==
    /\ pc[1] = "load"
    /\ i[1] = 1
    /\ InFlight(1) = {1}
    /\ Ops(1, 0, {"embedJpg"}) # {}
    /\ Len(pageGroups[1]) = 1 /\ Len(mainPdfDoc[1]) = 1

(***************************************************************************)
(* C15: with every await settling, a call that was made ends, resolved     *)
(* with the output path or rejected with one fatal error, and stays so;    *)
(* and the loop goes through the list once: the index never goes back,     *)
(* moves by one at a time, and each return to the loop test after an       *)
(* iteration is at the next index, so no index is visited twice.           *)
(***************************************************************************)
Settled(c) ==
    \/ pc[c] = "resolved" /\ result[c] = Resolved(outputPdfPath[c])
    \/ pc[c] = "rejected" /\ result[c].status = "rejected"
                          /\ result[c].error \in FatalErrors

OnceThrough(c) ==
    /\ i'[c] \in {i[c], i[c] + 1}
    /\ (pc[c] \in Awaits \cup {"loop"} /\ pc'[c] = "loop") => i'[c] = i[c] + 1
    /\ (pc[c] = "loop" /\ pc'[c] \in Awaits) => i'[c] = i[c]
    /\ pc[c] \in {"resolved", "rejected"} =>
          pc'[c] = pc[c] /\ result'[c] = result[c]

C15_Terminates ==
    /\ \A c \in Calls : (pc[c] # "idle") ~> Settled(c)
    /\ [][\A c \in Calls : OnceThrough(c)]_vars

\* a call on two entries, the first one corrupt, has resolved with the index
\* at the end of the list
C15_Witness ==
    /\ pc[1] = "resolved"
    /\ Settled(1)
    /\ i[1] = 2 /\ Len(files[1].items) = 2
    /\ Ops(1, 0, {ERR_DECODE}) # {}

(***************************************************************************)
(* C19: a skip is atomic.  When the catch block was entered for file k,    *)
(* whatever statement of the try block threw, the iteration of file k      *)
(* added no page: its page group is empty, and the document is the pages   *)
(* of the other iterations, as if file k had not been in the list.         *)
(***************************************************************************)
FileErrors == {ERR_DECODE, ERR_DRAW, ERR_APPEND}

C19_AtomicSkip ==
    \A c \in Calls :
        /\ mainPdfDoc[c] = Flatten(pageGroups[c])
        /\ \A k \in 0..(i[c] - 1) :
              Ops(c, k, FileErrors) # {} => pageGroups[c][k + 1] = <<>>

(***************************************************************************)
(* C14: two invocations that interleave at their awaits share no state.    *)
(* Each has its own document, which holds the pages of its own files and   *)
(* no other; and what an invocation whose consolidation succeeded delivers *)
(* as its merged PDF (the bytes read back for document.pdf, and the        *)
(* document.pdf stored in the bucket) is the serialization of its own      *)
(* document, whatever the other invocation was given.                      *)
(***************************************************************************)
C14_NoSharedState ==
    \A c \in Calls :
        /\ mainPdfDoc[c] = Flatten(pageGroups[c])
        /\ (files[c].isArray /\ PastLoop(c)) =>
              mainPdfDoc[c] = ExpectedPages(files[c].items)
        /\ (pc[c] = "resolved" /\ pdfBody[c] # NoBody) =>
              pdfBody[c] = Serialize(mainPdfDoc[c])
        /\ (pc[c] = "resolved" /\ s3Document[c] # NoBody) =>
              s3Document[c] = Serialize(mainPdfDoc[c])

(***************************************************************************)
(* C16: a consolidation that fails at batch level during a create task is  *)
(* surfaced.  When the call of createSinglePdfFromFiles rejected, the      *)
(* handler hands no document.pdf to the bucket and does not answer 200;    *)
(* and a document.pdf that the bucket holds for a request is the           *)
(* serialization of the pages of that request's own files.                 *)
(***************************************************************************)
C16_FailureSurfaced ==
    \A c \in Calls :
        /\ pc[c] = "rejected" =>
              /\ response[c].statusCode # 200
              /\ pdfBody[c] = NoBody
              /\ s3Document[c] = NoBody
        /\ s3Document[c] # NoBody =>
              s3Document[c] = Serialize(ExpectedPages(event[c].files.items))

(***************************************************************************)
(* C17: in a create task the consolidated PDF is written first and is what *)
(* goes to OCR and to the bucket.  model.generateContent is called, and    *)
(* updateS3Items is called, only after createSinglePdfFromFiles has        *)
(* resolved; and the one inline part of the OCR request is the merged PDF. *)
(***************************************************************************)
CalledAfter(c, op, before) ==
    \A n \in 1..Len(htrace[c]) :
        htrace[c][n] = HEv(op, "called") =>
            \E m \in 1..(n - 1) : htrace[c][m] = before

InlineParts(c) == SelectSeq(contentParts[c], LAMBDA part : part.kind = "inlineData")

MergedPdfData == "base64 of /tmp/final_merged_document.pdf"

C17_ConsolidateThenOcr ==
    \A c \in Calls :
        /\ hpc[c] = "generateContent" => pc[c] = "resolved"
        /\ CalledAfter(c, "generateContent", HEv("createSinglePdfFromFiles", "resolved"))
        /\ event[c].kind = "create" =>
              CalledAfter(c, "updateS3Items", HEv("createSinglePdfFromFiles", "resolved"))
        /\ contentParts[c] # <<>> =>
              InlineParts(c) = <<InlinePart(MergedPdfData, MIME_PDF)>>

(***************************************************************************)
(* C18: an entry whose extension is not .png, .jpg, .jpeg or .pdf adds no  *)
(* part to the OCR request: the inline parts are those of the entries that *)
(* pass the validation and have one of these extensions, in their order,   *)
(* and each carries image/png, image/jpeg or application/pdf.              *)
(***************************************************************************)
SupportedMimeTypes == {MIME_PNG, MIME_JPEG, MIME_PDF}

OcrEntry(e) == WellFormed(e) /\ DeclaredFormat(e.fileName.s) # "unsupported"

C18_SupportedPartsOnly ==
    \A c \in Calls :
        contentParts[c] # <<>> =>
            /\ \A k \in 1..Len(InlineParts(c)) :
                  InlineParts(c)[k].mimeType \in SupportedMimeTypes
            /\ Len(InlineParts(c)) = Len(SelectSeq(event[c].files.items, OcrEntry))
            /\ \A k \in 1..Len(InlineParts(c)) :
                  InlineParts(c)[k].data =
                      SelectSeq(event[c].files.items, OcrEntry)[k].fileData.s

(***************************************************************************)
(* C20: the handler never throws, and with every await settling it ends by *)
(* returning a response.  The status is 500 when the bucket name is unset, *)
(* the task is no object, has no type, lacks a required field, or a        *)
(* collaborator call rejected; 400 exactly for an unknown type; 404        *)
(* exactly for a download whose prefix has no PDF key; and 200 only for a  *)
(* task of one of the five types with its fields present and no call       *)
(* rejected, once the last call of its path has resolved.                  *)
(***************************************************************************)
MissingField(ev) ==
    \/ ev.kind = "update" /\ (~ev.title \/ ~ev.content)
    \/ ev.kind = "create" /\ (~ev.files.isArray \/ Len(ev.files.items) = 0)
    \/ ev.kind \in {"downloadMD", "download"} /\ ~ev.title

Made(c, op, what) == \E n \in 1..Len(htrace[c]) : htrace[c][n] = HEv(op, what)

\* the functions the handler imports and awaits
Collaborators ==
    {"callGoogleGenAIOCRBatch", "updateS3Items", "startec2", "getS3PdfKeys",
     "getPresignedUrlForPdf", "getMarkdownContent"}

SomeRejected(c) == \E op \in Collaborators : Made(c, op, "rejected")

\* the calls the handler awaits on the success path of each task type
CallsOf(kind) ==
    IF kind = "update" THEN {"updateS3Items"}
    ELSE IF kind = "create" THEN {"callGoogleGenAIOCRBatch", "updateS3Items", "startec2"}
    ELSE IF kind = "deploy" THEN {"startec2"}
    ELSE IF kind = "downloadMD" THEN {"getMarkdownContent"}
    ELSE IF kind = "download" THEN {"getS3PdfKeys", "getPresignedUrlForPdf"}
    ELSE {}

TaskTypes == {"update", "create", "deploy", "downloadMD", "download"}

StatusOK(c) ==
    LET ev == event[c]
        code == response[c].statusCode
    IN  /\ hpc[c] # "threw"
        /\ hpc[c] = "returned" <=> response[c] # NoResponse
        /\ hpc[c] = "returned" =>
              /\ code \in {200, 400, 404, 500}
              /\ ~BUCKET_NAME => code = 500
              /\ ev.kind \in {"notObject", "noType"} => code = 500
              /\ MissingField(ev) => code = 500
              /\ SomeRejected(c) => code = 500
              /\ Made(c, "readFileSync", "threw") => code = 500
              /\ code = 400 <=> (BUCKET_NAME /\ ev.kind = "unknown")
              /\ code = 404 <=> (ev.kind = "download" /\ Made(c, "getS3PdfKeys", "noKey"))
              /\ code = 200 =>
                    /\ BUCKET_NAME
                    /\ ev.kind \in TaskTypes
                    /\ ~MissingField(ev)
                    /\ ~SomeRejected(c)
                    /\ ~Made(c, "readFileSync", "threw")
                    /\ \A op \in CallsOf(ev.kind) : Made(c, op, "called")

C20_AlwaysResponds ==
    /\ [](\A c \in Calls : StatusOK(c))
    /\ \A c \in Calls : (hpc[c] # "idle") ~> (hpc[c] = "returned")

\* a create task whose upload was rejected: the catch block answered 500
C20_Witness ==
    /\ hpc[1] = "returned"
    /\ event[1].kind = "create"
    /\ Made(1, "updateS3Items", "rejected")
    /\ response[1].statusCode = 500
    /\ pc[1] = "resolved"


\* ---------------------------------------------------------------------
\* C21: in a create task the steps run in the order OCR call, upload of
\* both items, EC2 start, response.  The upload is called only after
\* callGoogleGenAIOCRBatch resolved; startec2 is called only after the send
\* of each of the two items was acknowledged and updateS3Items resolved;
\* status 200 is returned only after startec2 resolved; and once a step
\* (the OCR call, the send of an item, updateS3Items, startec2) rejects, no
\* further call is made and the response is 500.
\* ---------------------------------------------------------------------
\* the place of the first event e in the calls of invocation c, 0 when absent
Pos(c, e) ==
    IF \E n \in 1..Len(htrace[c]) : htrace[c][n] = e
    THEN CHOOSE n \in 1..Len(htrace[c]) :
            /\ htrace[c][n] = e
            /\ \A m \in 1..(n - 1) : htrace[c][m] # e
    ELSE 0

\* event b happened only after event a
OnlyAfter(c, a, b) == Pos(c, b) > 0 => (Pos(c, a) > 0 /\ Pos(c, a) < Pos(c, b))

CreateSteps == {"callGoogleGenAIOCRBatch", ITEM_MARKDOWN, ITEM_DOCUMENT,
                "updateS3Items", "startec2"}

C21_CreateInOrder ==
    \A c \in Calls :
        event[c].kind = "create" =>
            /\ OnlyAfter(c, HEv("callGoogleGenAIOCRBatch", "called"),
                            HEv("callGoogleGenAIOCRBatch", "resolved"))
            /\ OnlyAfter(c, HEv("callGoogleGenAIOCRBatch", "resolved"),
                            HEv("updateS3Items", "called"))
            /\ \A k \in 1..Len(ItemsToUpload) :
                  /\ OnlyAfter(c, HEv("updateS3Items", "called"),
                                  HEv(ItemsToUpload[k], "called"))
                  /\ OnlyAfter(c, HEv(ItemsToUpload[k], "called"),
                                  HEv(ItemsToUpload[k], "resolved"))
                  /\ OnlyAfter(c, HEv(ItemsToUpload[k], "resolved"),
                                  HEv("startec2", "called"))
            /\ OnlyAfter(c, HEv("updateS3Items", "resolved"), HEv("startec2", "called"))
            /\ OnlyAfter(c, HEv("startec2", "called"), HEv("startec2", "resolved"))
            /\ response[c].statusCode = 200 =>
                  /\ Made(c, "startec2", "resolved")
                  /\ htrace[c][Len(htrace[c])] = HEv("startec2", "resolved")
            /\ \A n \in 1..Len(htrace[c]) :
                  (htrace[c][n].op \in CreateSteps /\ htrace[c][n].what = "rejected") =>
                      /\ \A m \in (n + 1)..Len(htrace[c]) : htrace[c][m].what # "called"
                      /\ hpc[c] = "returned"
                      /\ response[c].statusCode = 500

\* a create task that went through every step and answered 200
C21_Witness ==
    /\ event[1].kind = "create" /\ hpc[1] = "returned"
    /\ response[1].statusCode = 200
    /\ Made(1, ITEM_MARKDOWN, "resolved") /\ Made(1, ITEM_DOCUMENT, "resolved")
    /\ Made(1, "startec2", "resolved")

====
